---------------------------- MODULE Spec2Model ----------------------------
(***************************************************************************)
(* Model of CasesNotifier (src/src/main.rs): the account list, its binary  *)
(* file accounts.dat, the weekly "next Wednesday" computation and the      *)
(* egui update() frame with its edit window.                               *)
(*                                                                         *)
(* Representation.  A u64 timestamp is an integer 0 <= t < 2^31 (the range *)
(* TLC computes in); in that range the casts `as i64` / `as u64` keep the  *)
(* value.  A String is the sequence of its UTF-8 bytes.  The text of the   *)
(* date field is the sequence of the numbers written in it: six numbers    *)
(* <<H, Mi, S, D, Mo, Y>> for a text of the pattern "%H:%M:%S %d/%m/%Y",   *)
(* <<>> for the empty text, fewer than six for a text that does not match. *)
(***************************************************************************)
EXTENDS Integers, Sequences, FiniteSets, TLC

VARIABLES
    accounts,         \* CasesNotifier.accounts : Vec<Account>
    editing_account,  \* CasesNotifier.editing_account : bool
    account_to_edit,  \* CasesNotifier.account_to_edit : usize
    editing_date,     \* CasesNotifier.editing_date : String
    file,             \* content of accounts.dat, or NoFile
    now,              \* the system clock, Unix seconds
    tz,               \* the host's local time zone
    aborted,          \* the process has panicked
    lastEvent,        \* history: the input of the last step
    pc,               \* position in the codec, recurrence and display runs
    arg,              \* input of the codec, recurrence and display runs
    ret               \* result of the codec, recurrence and display runs

vars == <<accounts, editing_account, account_to_edit, editing_date, file,
          now, tz, aborted, lastEvent, pc, arg, ret>>

-----------------------------------------------------------------------------
(* Bounds of the model.                                                    *)

\* longest account list explored
MaxAccounts == 2
\* buttons that can report clicked() in one frame
MaxClicks == 2
\* number of consecutive days the recurrence inputs are drawn from
SpanDays == 8

-----------------------------------------------------------------------------
(* Calendar arithmetic of chrono (proleptic Gregorian, days since          *)
(* 1970-01-01).                                                            *)

SecsPerDay == 86400

SecsPerHour == 3600

\* chrono::Weekday numbered from Monday = 0
Wed == 2

IsLeap(y) == (y % 4 = 0 /\ y % 100 # 0) \/ y % 400 = 0

DaysInMonth(y, m) ==
    IF m = 2 THEN (IF IsLeap(y) THEN 29 ELSE 28)
    ELSE IF m \in {4, 6, 9, 11} THEN 30 ELSE 31

\* NaiveDate::from_ymd -> day number
DaysFromCivil(y0, m, d) ==
    LET y   == IF m <= 2 THEN y0 - 1 ELSE y0
        era == y \div 400
        yoe == y - era * 400
        mp  == IF m > 2 THEN m - 3 ELSE m + 9
        doy == (153 * mp + 2) \div 5 + d - 1
        doe == yoe * 365 + yoe \div 4 - yoe \div 100 + doy
    IN  era * 146097 + doe - 719468

\* day number -> [Y, Mo, D]
CivilFromDays(days) ==
    LET z   == days + 719468
        era == z \div 146097
        doe == z - era * 146097
        yoe == (doe - doe \div 1460 + doe \div 36524 - doe \div 146096) \div 365
        doy == doe - (365 * yoe + yoe \div 4 - yoe \div 100)
        mp  == (5 * doy + 2) \div 153
        d   == doy - (153 * mp + 2) \div 5 + 1
        m   == IF mp < 10 THEN mp + 3 ELSE mp - 9
        y   == yoe + era * 400 + (IF m <= 2 THEN 1 ELSE 0)
    IN  [Y |-> y, Mo |-> m, D |-> d]

\* NaiveDateTime::from_timestamp_opt(t, 0).date(), as a day number
DateOf(t) == t \div SecsPerDay

\* NaiveDateTime::from_timestamp_opt(t, 0).time(), as seconds of the day
TimeOf(t) == t % SecsPerDay

\* NaiveDate::weekday(): 1970-01-01 was a Thursday
Weekday(day) == (day + 3) % 7

\* NaiveDateTime::new(date, time).timestamp()
Timestamp(day, secs) == day * SecsPerDay + secs

\* the instant Y-Mo-D h:mi:s UTC
Utc(y, m, d, h, mi, s) ==
    Timestamp(DaysFromCivil(y, m, d), h * SecsPerHour + mi * 60 + s)

-----------------------------------------------------------------------------
(* chrono::Local.  Three hosts: one on UTC, one on America/New_York, one   *)
(* on Europe/Kyiv, each with its 2023 rules (all instants of the model lie *)
(* in 2023).                                                               *)

Zones == {"UTC", "America/New_York", "Europe/Kyiv"}

\* offset from UTC, in seconds, in force at the instant t
TzOffset(z, t) ==
    CASE z = "UTC" -> 0
      [] z = "America/New_York" ->
            IF Utc(2023, 3, 12, 7, 0, 0) <= t /\ t < Utc(2023, 11, 5, 6, 0, 0)
            THEN -4 * SecsPerHour ELSE -5 * SecsPerHour
      [] z = "Europe/Kyiv" ->
            IF Utc(2023, 3, 26, 1, 0, 0) <= t /\ t < Utc(2023, 10, 29, 1, 0, 0)
            THEN 3 * SecsPerHour ELSE 2 * SecsPerHour

\* the hosts the application is run on
UiZones == {"UTC", "America/New_York"}

ZoneOffsets(z) ==
    CASE z = "UTC" -> {0}
      [] z = "America/New_York" -> {-4 * SecsPerHour, -5 * SecsPerHour}
      [] z = "Europe/Kyiv" -> {3 * SecsPerHour, 2 * SecsPerHour}

\* Local.timestamp_opt(t, 0).unwrap().naive_local(), as local seconds
ToLocal(z, t) == t + TzOffset(z, t)

\* Local.from_local_datetime(&naive): the set of instants whose local
\* reading is `naive`.  Empty = LocalResult::None, one = Single,
\* two = Ambiguous.
from_local_datetime(z, naive) ==
    {u \in {naive - o : o \in ZoneOffsets(z)} : ToLocal(z, u) = naive}

-----------------------------------------------------------------------------
(* Date text, pattern "%H:%M:%S %d/%m/%Y".                                 *)

\* the empty String
EmptyText == <<>>

\* a text that does not match the pattern ("12:00")
Junk == <<12, 0>>

\* format_date: the text written for the timestamp, in local time
format_date(z, date) ==
    LET l == ToLocal(z, date)
        c == CivilFromDays(DateOf(l))
        s == TimeOf(l)
    IN  <<s \div SecsPerHour, (s \div 60) % 60, s % 60, c.D, c.Mo, c.Y>>

\* NaiveDateTime::parse_from_str(text, "%H:%M:%S %d/%m/%Y").is_ok()
ParseOk(text) ==
    /\ Len(text) = 6
    /\ text[1] \in 0..23 /\ text[2] \in 0..59 /\ text[3] \in 0..60
    /\ text[5] \in 1..12
    /\ text[4] \in 1..DaysInMonth(text[6], text[5])

\* the NaiveDateTime parsed, as naive seconds (second 60 is a leap second
\* of second 59)
ParseValue(text) ==
    Timestamp(DaysFromCivil(text[6], text[5], text[4]),
              text[1] * SecsPerHour + text[2] * 60
                  + (IF text[3] = 60 THEN 59 ELSE text[3]))

-----------------------------------------------------------------------------
(* The binary format of accounts.dat.                                      *)

\* accounts.dat does not exist
NoFile == "missing"

Account(name, date) == [name |-> name, date |-> date]

RECURSIVE LeDigits(_, _)
LeDigits(v, n) == IF n = 0 THEN <<>> ELSE <<v % 256>> \o LeDigits(v \div 256, n - 1)

\* u64::to_le_bytes
to_le_bytes(v) == LeDigits(v, 8)

RECURSIVE from_le_bytes(_)
\* u64::from_le_bytes
from_le_bytes(b) ==
    IF b = <<>> THEN 0 ELSE Head(b) + 256 * from_le_bytes(Tail(b))

\* Account::to_binary writing only the low byte of the date
to_binary_lowbyte(a) == a.name \o <<0>> \o LeDigits(a.date % 256, 8)

\* Account::to_binary
to_binary(a) == a.name \o <<0>> \o to_le_bytes(a.date)

RECURSIVE Encode(_)
\* the bytes the loop of save_accounts writes
Encode(accs) ==
    IF accs = <<>> THEN <<>> ELSE to_binary(Head(accs)) \o Encode(Tail(accs))

\* outcomes of the file system when save_accounts runs
IoOutcomes == {"ok", "create_err", "write_err"}

\* save_accounts: File::create truncates the file, then one write_all per
\* account; either unwrap() panics on an Err
save_accounts(accs, old, io) ==
    CASE io = "create_err" -> [file |-> old, panic |-> TRUE]
      [] io = "write_err" /\ accs # <<>> -> [file |-> <<>>, panic |-> TRUE]
      [] OTHER -> [file |-> Encode(accs), panic |-> FALSE]

IsCont(b) == b \in 128..191

RECURSIVE Utf8Valid(_)
\* String::from_utf8(..).is_ok()
Utf8Valid(b) ==
    IF b = <<>> THEN TRUE
    ELSE LET h == b[1]
             n == Len(b)
         IN  CASE h < 128 -> Utf8Valid(Tail(b))
               [] h \in 194..223 ->
                     n >= 2 /\ IsCont(b[2]) /\ Utf8Valid(SubSeq(b, 3, n))
               [] h \in 224..239 ->
                     /\ n >= 3 /\ IsCont(b[2]) /\ IsCont(b[3])
                     /\ (h = 224 => b[2] >= 160)
                     /\ (h = 237 => b[2] <= 159)
                     /\ Utf8Valid(SubSeq(b, 4, n))
               [] h \in 240..244 ->
                     /\ n >= 4 /\ IsCont(b[2]) /\ IsCont(b[3]) /\ IsCont(b[4])
                     /\ (h = 240 => b[2] >= 144)
                     /\ (h = 244 => b[2] <= 143)
                     /\ Utf8Valid(SubSeq(b, 5, n))
               [] OTHER -> FALSE

RECURSIVE LoadLoop(_, _, _, _)
\* the loop of load_accounts from byte position pos, with the name buffer
\* and the accounts read so far
LoadLoop(bytes, pos, buffer, accs) ==
    IF pos > Len(bytes) THEN [accounts |-> accs, panic |-> FALSE]
    ELSE IF bytes[pos] = 0
         THEN IF ~Utf8Valid(buffer) \/ Len(bytes) - pos < 8
              THEN [accounts |-> <<>>, panic |-> TRUE]
              ELSE LoadLoop(bytes, pos + 9, <<>>,
                       Append(accs, Account(buffer,
                           from_le_bytes(SubSeq(bytes, pos + 1, pos + 8)))))
         ELSE LoadLoop(bytes, pos + 1, Append(buffer, bytes[pos]), accs)

\* load_accounts with File::open unwrapped: a missing file panics
load_accounts_must_open(f) ==
    IF f = NoFile THEN [accounts |-> <<>>, panic |-> TRUE]
    ELSE LoadLoop(f, 1, <<>>, <<>>)

\* load_accounts: a file that cannot be opened gives the empty list
load_accounts(f) ==
    IF f = NoFile THEN [accounts |-> <<>>, panic |-> FALSE]
    ELSE LoadLoop(f, 1, <<>>, <<>>)

-----------------------------------------------------------------------------
(* The weekly recurrence.                                                  *)

RECURSIVE FirstWednesday(_)
\* the while loop of next_wednesday: the first Wednesday from `day` on
FirstWednesday(day) ==
    IF Weekday(day) = Wed THEN day ELSE FirstWednesday(day + 1)

\* next_wednesday without the first succ_opt()
next_wednesday_nosucc(timestamp) ==
    Timestamp(FirstWednesday(DateOf(timestamp)), 0)

\* next_wednesday keeping the time of day of the argument
next_wednesday_keeptime(timestamp) ==
    Timestamp(FirstWednesday(DateOf(timestamp) + 1), TimeOf(timestamp))

\* next_wednesday adding seven days to the argument's midnight
next_wednesday_plus7(timestamp) ==
    Timestamp(DateOf(timestamp) + 7, 0)

\* next_wednesday with succ_opt() taken twice before the loop
next_wednesday_from2(timestamp) ==
    Timestamp(FirstWednesday(DateOf(timestamp) + 2), 0)

\* next_wednesday
next_wednesday(timestamp) ==
    Timestamp(FirstWednesday(DateOf(timestamp) + 1), 0)

\* Account::get_next_date
get_next_date(a) == next_wednesday(a.date)

\* Account::get_remaining_time with the comparison turned round
get_remaining_time_swapped(a, clock) ==
    LET next == get_next_date(a)
    IN  IF clock < next THEN 0 ELSE next - clock

\* Account::get_remaining_time without the early return: the distance
\* between the clock and the next occurrence
get_remaining_time_abs(a, clock) ==
    LET next == get_next_date(a)
    IN  IF clock > next THEN clock - next ELSE next - clock

\* Account::get_remaining_time, `clock` being chrono::Local::now()
get_remaining_time(a, clock) ==
    LET next == get_next_date(a)
    IN  IF clock > next THEN 0 ELSE next - clock

-----------------------------------------------------------------------------
(* One frame: CasesNotifier::update.  The frame works on the record `st`   *)
(* of the fields of CasesNotifier plus the file; a panic sets st.aborted   *)
(* and the rest of the frame does not run.  The input `inp` of a frame is  *)
(*   clicks : the buttons whose clicked() is true in this frame,           *)
(*   name, date : what the user typed into the two text fields (a set with *)
(*                the new text, or {} when the field was not touched),     *)
(*   io : what the file system answers if the frame saves.                 *)

\* "Account name".to_string()
DefaultName == <<65, 99, 99, 111, 117, 110, 116, 32, 110, 97, 109, 101>>

State(accs, ed, idx, text, f, ab) ==
    [accounts |-> accs, editing_account |-> ed, account_to_edit |-> idx,
     editing_date |-> text, file |-> f, aborted |-> ab]

Panic(st) == [st EXCEPT !.aborted = TRUE]

\* save_accounts(&self.accounts) inside a frame
Save(st, io) ==
    LET r == save_accounts(st.accounts, st.file, io)
    IN  [st EXCEPT !.file = r.file, !.aborted = r.panic]

\* the "Add account" button with the guard on editing_account left out
AddStep_unguarded(st, inp, clock, z) ==
    IF <<"Add", 0>> \in inp.clicks
    THEN LET accs == Append(st.accounts, Account(DefaultName, clock))
             idx  == Len(accs) - 1
         IN  Save([st EXCEPT !.accounts = accs,
                             !.editing_account = TRUE,
                             !.account_to_edit = idx,
                             !.editing_date = format_date(z, accs[idx + 1].date)],
                  inp.io)
    ELSE st

\* the "Add account" button inserting the new account at the front
AddStep_front(st, inp, clock, z) ==
    IF <<"Add", 0>> \in inp.clicks /\ ~st.editing_account
    THEN LET accs == <<Account(DefaultName, clock)>> \o st.accounts
             idx  == Len(accs) - 1
         IN  Save([st EXCEPT !.accounts = accs,
                             !.editing_account = TRUE,
                             !.account_to_edit = idx,
                             !.editing_date = format_date(z, accs[idx + 1].date)],
                  inp.io)
    ELSE st

\* the "Add account" button
AddStep(st, inp, clock, z) ==
    IF <<"Add", 0>> \in inp.clicks /\ ~st.editing_account
    THEN LET accs == Append(st.accounts, Account(DefaultName, clock))
             idx  == Len(accs) - 1
         IN  Save([st EXCEPT !.accounts = accs,
                             !.editing_account = TRUE,
                             !.account_to_edit = idx,
                             !.editing_date = format_date(z, accs[idx + 1].date)],
                  inp.io)
    ELSE st

\* the Edit button of row i with the guard on editing_account left out
EditButton_unguarded(st, i, inp, z) ==
    IF <<"Edit", i>> \in inp.clicks
    THEN [st EXCEPT !.editing_account = TRUE,
                    !.account_to_edit = i,
                    !.editing_date = format_date(z, st.accounts[i + 1].date)]
    ELSE st

\* the Edit button of row i
EditButton(st, i, inp, z) ==
    IF <<"Edit", i>> \in inp.clicks /\ ~st.editing_account
    THEN [st EXCEPT !.editing_account = TRUE,
                    !.account_to_edit = i,
                    !.editing_date = format_date(z, st.accounts[i + 1].date)]
    ELSE st

\* the Delete button of row i with the guard on editing_account left out
DeleteButton_unguarded(st, i, del, inp) ==
    IF <<"Delete", i>> \in inp.clicks THEN i ELSE del

\* the Delete button of row i: the new value of to_delete_index
DeleteButton(st, i, del, inp) ==
    IF <<"Delete", i>> \in inp.clicks /\ ~st.editing_account THEN i ELSE del

\* the "Reset timer" button of row i is accepted
ResetAccepted(st, i, inp) ==
    <<"Reset", i>> \in inp.clicks /\ ~st.editing_account

\* the "Reset timer" button of row i writing to accounts[account_to_edit]
ResetButton_edited(st, i, inp, clock) ==
    IF ResetAccepted(st, i, inp)
    THEN [st EXCEPT !.accounts[st.account_to_edit + 1].date = clock]
    ELSE st

\* the "Reset timer" button of row i
ResetButton(st, i, inp, clock) ==
    IF ResetAccepted(st, i, inp)
    THEN [st EXCEPT !.accounts[i + 1].date = clock]
    ELSE st

RECURSIVE RowLoop(_, _, _, _, _, _, _)
RECURSIVE RowRest(_, _, _, _, _, _, _)
\* the loop over the rows from row i on; `del` is to_delete_index and
\* `save` is to_save
RowLoop(st, i, del, save, inp, clock, z) ==
    IF i >= Len(st.accounts) THEN [st |-> st, del |-> del, save |-> save]
    ELSE RowRest(EditButton(st, i, inp, z), i, del, save, inp, clock, z)

\* row i after its Edit button: Delete, Reset timer, then the next row
RowRest(st, i, del, save, inp, clock, z) ==
    RowLoop(ResetButton(st, i, inp, clock), i + 1,
            DeleteButton(st, i, del, inp),
            save \/ ResetAccepted(st, i, inp), inp, clock, z)

\* Vec::swap_remove(i) in the place of Vec::remove(i): the last element
\* takes the place of the removed one
Remove_swap(accs, i) ==
    IF i + 1 = Len(accs) THEN SubSeq(accs, 1, Len(accs) - 1)
    ELSE SubSeq([accs EXCEPT ![i + 1] = accs[Len(accs)]], 1, Len(accs) - 1)

\* Vec::remove(i), i counted from 0
Remove(accs, i) == SubSeq(accs, 1, i) \o SubSeq(accs, i + 2, Len(accs))

\* after the rows: the deferred removal, with to_save never acted on
RowsEnd_nosave(r, inp) ==
    IF r.del # -1
    THEN [r.st EXCEPT !.accounts = Remove(r.st.accounts, r.del)]
    ELSE r.st

\* after the rows: the deferred removal and the save; Vec::remove panics
\* on an index that is not below the length
RowsEnd(r, inp) ==
    IF r.del # -1
    THEN IF r.del >= Len(r.st.accounts) THEN Panic(r.st)
         ELSE Save([r.st EXCEPT !.accounts = Remove(r.st.accounts, r.del)],
                   inp.io)
    ELSE IF r.save THEN Save(r.st, inp.io) ELSE r.st

\* the scroll area
RowsStep(st, inp, clock, z) ==
    IF st.aborted THEN st
    ELSE RowsEnd(RowLoop(st, 0, -1, FALSE, inp, clock, z), inp)

\* LocalResult::unwrap, then the assignment to the edited account's date
Unwrap(st, r) ==
    IF Cardinality(r) # 1 THEN Panic(st)
    ELSE [st EXCEPT !.accounts[st.account_to_edit + 1].date = CHOOSE u \in r : TRUE]

\* "try to parse date" with the result of the parse dropped
ParseStep_ignore(st, z) == st

\* "try to parse date": the match on parse_from_str
ParseStep(st, z) ==
    IF ParseOk(st.editing_date)
    THEN Unwrap(st, from_local_datetime(z, ParseValue(st.editing_date)))
    ELSE st

\* closing the window without the save
CloseStep_nosave(st, inp) ==
    IF ~st.aborted /\ <<"Close", 0>> \in inp.clicks
    THEN [st EXCEPT !.editing_account = FALSE]
    ELSE st

\* `if !show_window`: the window was closed in this frame
CloseStep(st, inp) ==
    IF ~st.aborted /\ <<"Close", 0>> \in inp.clicks
    THEN Save([st EXCEPT !.editing_account = FALSE], inp.io)
    ELSE st

\* TextEdit::singleline(&mut self.accounts[self.account_to_edit].name)
NameField(st, inp) ==
    IF inp.name = {} THEN st
    ELSE [st EXCEPT !.accounts[st.account_to_edit + 1].name =
                        CHOOSE n \in inp.name : TRUE]

\* TextEdit::singleline(&mut self.editing_date)
DateField(st, inp) ==
    IF inp.date = {} THEN st
    ELSE [st EXCEPT !.editing_date = CHOOSE d \in inp.date : TRUE]

\* the "Edit account" window
EditWindow(st, inp, z) ==
    IF st.aborted \/ ~st.editing_account THEN st
    ELSE IF st.account_to_edit >= Len(st.accounts) THEN Panic(st)
    ELSE CloseStep(ParseStep(DateField(NameField(st, inp), inp), z), inp)

\* CasesNotifier::update
update(st, inp, clock, z) ==
    EditWindow(RowsStep(AddStep(st, inp, clock, z), inp, clock, z), inp, z)

-----------------------------------------------------------------------------
(* The application as a state machine: construction, then one action per   *)
(* kind of frame, and the clock.                                           *)

\* 2023-11-01 (a Wednesday) 14:00:00 UTC, 10:00:00 in New York
Clock1 == Utc(2023, 11, 1, 14, 0, 0)

\* 2023-11-05 05:30:00 UTC: 01:30:00 in New York, the hour that occurs twice
Clock2 == Utc(2023, 11, 5, 5, 30, 0)

ClockValues == {Clock1, Clock2}

\* the name the user types: "B"
TypedNames == {<<66>>}

\* date texts the user types: "12:00", "10:00:00 02/11/2023" and
\* "01:30:00 05/11/2023", a time that occurs twice in New York
TypedDates == {Junk, <<10, 0, 0, 2, 11, 2023>>, <<1, 30, 0, 5, 11, 2023>>}

\* contents of accounts.dat found at start: no file; an empty file; one
\* record; one record and a name left without terminator; a record cut
\* after 5 bytes of its timestamp; a name that is not UTF-8
InitialFiles ==
    {NoFile, <<>>,
     Encode(<<Account(DefaultName, Clock1)>>),
     Encode(<<Account(DefaultName, Clock1)>>) \o <<66>>,
     Encode(<<Account(DefaultName, Clock1)>>) \o <<66, 0, 1, 2, 3, 4, 5>>,
     <<255>> \o Encode(<<Account(DefaultName, Clock1)>>)}

Input(clicks, name, date, io) ==
    [clicks |-> clicks, name |-> name, date |-> date, io |-> io]

NoEvent == [clicks |-> {}, name |-> {}, date |-> {},
            locked |-> FALSE, start |-> TRUE]

\* impl Default for CasesNotifier
Init ==
    \E f \in InitialFiles, z \in UiZones :
        LET r == load_accounts(f)
        IN  /\ accounts = r.accounts
            /\ editing_account = FALSE
            /\ account_to_edit = 0
            /\ editing_date = EmptyText
            /\ file = f
            /\ now = Clock1
            /\ tz = z
            /\ aborted = r.panic
            /\ lastEvent = NoEvent
            /\ pc = "ui"
            /\ arg = "none"
            /\ ret = "none"

\* the fields of CasesNotifier and the file after the frame; after a panic
\* they are what they were when the frame stopped
Commit(m) ==
    /\ accounts' = m.accounts
    /\ editing_account' = m.editing_account
    /\ account_to_edit' = m.account_to_edit
    /\ editing_date' = m.editing_date
    /\ file' = m.file
    /\ aborted' = m.aborted

\* one call of update() with the input inp
Frame(inp) ==
    /\ pc = "ui"
    /\ ~aborted
    /\ Commit(update(State(accounts, editing_account, account_to_edit,
                            editing_date, file, FALSE), inp, now, tz))
    /\ lastEvent' = [clicks |-> inp.clicks, name |-> inp.name,
                     date |-> inp.date,
                     locked |-> editing_account, start |-> FALSE]
    /\ UNCHANGED <<now, tz, pc, arg, ret>>

Rows == 0..(Len(accounts) - 1)

\* the buttons on screen
Buttons ==
    {<<"Add", 0>>} \cup ({"Edit", "Delete", "Reset"} \X Rows)
        \cup (IF editing_account THEN {<<"Close", 0>>} ELSE {})

\* the list stays within the bound of the model
Room(clicks) ==
    <<"Add", 0>> \in clicks => (editing_account \/ Len(accounts) < MaxAccounts)

\* a repaint without input (request_repaint_after)
Refresh == Frame(Input({}, {}, {}, "ok"))

ClickAdd ==
    \E io \in IoOutcomes :
        Room({<<"Add", 0>>}) /\ Frame(Input({<<"Add", 0>>}, {}, {}, io))

ClickEdit == \E i \in Rows : Frame(Input({<<"Edit", i>>}, {}, {}, "ok"))

ClickDelete ==
    \E i \in Rows, io \in IoOutcomes : Frame(Input({<<"Delete", i>>}, {}, {}, io))

ClickReset ==
    \E i \in Rows, io \in IoOutcomes : Frame(Input({<<"Reset", i>>}, {}, {}, io))

\* the close button of the edit window
CloseWindow ==
    /\ editing_account
    /\ \E io \in IoOutcomes : Frame(Input({<<"Close", 0>>}, {}, {}, io))

\* several buttons report clicked() in the same frame
MultiClick ==
    \E cs \in SUBSET Buttons :
        /\ Cardinality(cs) \in 2..MaxClicks
        /\ Room(cs)
        /\ Frame(Input(cs, {}, {}, "ok"))

\* the user edits the name field of the edit window
TypeName ==
    /\ editing_account
    /\ \E n \in TypedNames : Frame(Input({}, {n}, {}, "ok"))

\* the user edits the date field of the edit window
TypeDate ==
    /\ editing_account
    /\ \E d \in TypedDates : Frame(Input({}, {}, {d}, "ok"))

\* the system clock advances
Tick ==
    /\ pc = "ui"
    /\ ~aborted
    /\ \E c \in ClockValues : c > now /\ now' = c
    /\ lastEvent' = [clicks |-> {}, name |-> {}, date |-> {},
                     locked |-> editing_account, start |-> FALSE]
    /\ UNCHANGED <<accounts, editing_account, account_to_edit, editing_date,
                   file, tz, aborted, pc, arg, ret>>

Next ==
    \/ Refresh
    \/ ClickAdd
    \/ ClickEdit
    \/ ClickDelete
    \/ ClickReset
    \/ CloseWindow
    \/ MultiClick
    \/ TypeName
    \/ TypeDate
    \/ Tick

Spec == Init /\ [][Next]_vars

-----------------------------------------------------------------------------
(* The application started on a list of up to three accounts with          *)
(* different names and dates, and driven by clicks alone.                  *)

\* "A", "B" and "C", last collected on 2023-10-30, 2023-10-31 and 2023-11-01
StoreAccounts ==
    <<Account(<<65>>, Utc(2023, 10, 30, 9, 0, 0)),
      Account(<<66>>, Utc(2023, 10, 31, 9, 0, 0)),
      Account(<<67>>, Clock1)>>

InitStore ==
    \E n \in 0..Len(StoreAccounts), z \in UiZones :
        LET f == Encode(SubSeq(StoreAccounts, 1, n))
            r == load_accounts(f)
        IN  /\ accounts = r.accounts
            /\ editing_account = FALSE
            /\ account_to_edit = 0
            /\ editing_date = EmptyText
            /\ file = f
            /\ now = Clock2
            /\ tz = z
            /\ aborted = r.panic
            /\ lastEvent = NoEvent
            /\ pc = "ui"
            /\ arg = "none"
            /\ ret = "none"

NextStore ==
    \/ Refresh
    \/ ClickAdd
    \/ ClickEdit
    \/ ClickDelete
    \/ ClickReset
    \/ CloseWindow
    \/ MultiClick

SpecStore == InitStore /\ [][NextStore]_vars

-----------------------------------------------------------------------------
(* The codec on its own: a store is saved and the bytes are loaded again,  *)
(* or a byte stream is loaded directly.                                    *)

\* names of the stores: "", "A", "0", "A\0B" (an embedded NUL), "é"
CodecNames == {<<>>, <<65>>, <<48>>, <<65, 0, 66>>, <<195, 169>>}

\* timestamps of the stores; the bytes of each contain 0x00
CodecDates == {0, 256, Clock1}

RECURSIVE SeqsUpTo(_, _)
\* the sequences over S of length at most n
SeqsUpTo(S, n) ==
    IF n = 0 THEN {<<>>}
    ELSE SeqsUpTo(S, n - 1)
            \cup {Append(q, x) : q \in {p \in SeqsUpTo(S, n - 1) : Len(p) = n - 1},
                                 x \in S}

Stores == SeqsUpTo({Account(n, d) : n \in CodecNames, d \in CodecDates}, MaxAccounts)

HasNul(accs) == \E i \in 1..Len(accs) : \E k \in 1..Len(accs[i].name) : accs[i].name[k] = 0

\* streams that end inside a record: the records of `store`, then the
\* name "B", its terminator and only `cut` < 8 bytes
CutStreams ==
    {[kind |-> "cut", store |-> q, cut |-> k] :
        q \in {p \in Stores : Len(p) >= 1 /\ ~HasNul(p)}, k \in 0..7}

CodecInputs == {[kind |-> "store", store |-> q, cut |-> 0] : q \in Stores} \cup CutStreams

RECURSIVE Ones(_)
Ones(k) == IF k = 0 THEN <<>> ELSE <<1>> \o Ones(k - 1)

InitCodec ==
    \E a \in CodecInputs :
        /\ arg = a
        /\ accounts = IF a.kind = "store" THEN a.store ELSE <<>>
        /\ file = IF a.kind = "store" THEN NoFile
                  ELSE Encode(a.store) \o <<66, 0>> \o Ones(a.cut)
        /\ pc = IF a.kind = "store" THEN "start" ELSE "stream"
        /\ ret = [accounts |-> <<>>, panic |-> FALSE]
        /\ editing_account = FALSE
        /\ account_to_edit = 0
        /\ editing_date = EmptyText
        /\ now = Clock1
        /\ tz = "UTC"
        /\ aborted = FALSE
        /\ lastEvent = NoEvent

\* save_accounts(&accounts)
CodecSave ==
    /\ pc = "start"
    /\ \E io \in IoOutcomes :
          LET r == save_accounts(accounts, file, io)
          IN  /\ file' = r.file
              /\ aborted' = r.panic
              /\ pc' = IF r.panic THEN "panicked" ELSE "saved"
    /\ UNCHANGED <<accounts, editing_account, account_to_edit, editing_date,
                   now, tz, lastEvent, arg, ret>>

\* load_accounts()
CodecLoad ==
    /\ pc \in {"saved", "stream"}
    /\ ret' = load_accounts(file)
    /\ aborted' = ret'.panic
    /\ pc' = "loaded"
    /\ UNCHANGED <<accounts, editing_account, account_to_edit, editing_date,
                   file, now, tz, lastEvent, arg>>

NextCodec == CodecSave \/ CodecLoad

SpecCodec == InitCodec /\ [][NextCodec]_vars

-----------------------------------------------------------------------------
(* The recurrence on its own: next_wednesday and get_remaining_time are    *)
(* applied to timestamps of SpanDays consecutive days from Wednesday       *)
(* 2023-11-01 on, on each host.                                            *)

\* 2023-11-08 (the next Wednesday) 00:00:00 UTC
Clock3 == Utc(2023, 11, 8, 0, 0, 0)

\* times of the day: midnight, 00:00:01, 08:00, 10:00, 14:00, 22:00, 23:59:59
DayTimes == {0, 1, 8 * SecsPerHour, 10 * SecsPerHour, 14 * SecsPerHour,
             22 * SecsPerHour, SecsPerDay - 1}

RecurTimes ==
    {Timestamp(DaysFromCivil(2023, 11, 1) + d, s) : d \in 0..(SpanDays - 1), s \in DayTimes}

\* clock readings around the Wednesday midnight
RecurClocks == {Clock3 - 1, Clock3, Clock3 + 1}

InitRecur ==
    \E t \in RecurTimes, c \in RecurClocks, z \in Zones :
        /\ arg = [t |-> t, reset |-> FALSE]
        /\ now = c
        /\ tz = z
        /\ pc = "start"
        /\ ret = [next |-> 0, again |-> 0, remaining |-> 0]
        /\ accounts = <<Account(DefaultName, t)>>
        /\ editing_account = FALSE
        /\ account_to_edit = 0
        /\ editing_date = EmptyText
        /\ file = NoFile
        /\ aborted = FALSE
        /\ lastEvent = NoEvent

\* "Reset timer": account.date = now
RecurReset ==
    /\ pc = "start"
    /\ ~arg.reset
    /\ accounts' = <<[accounts[1] EXCEPT !.date = now]>>
    /\ arg' = [t |-> now, reset |-> TRUE]
    /\ UNCHANGED <<editing_account, account_to_edit, editing_date, file,
                   now, tz, aborted, lastEvent, pc, ret>>

\* accounts[0].get_next_date()
RecurNext ==
    /\ pc = "start"
    /\ ret' = [ret EXCEPT !.next = get_next_date(accounts[1])]
    /\ pc' = "next"
    /\ UNCHANGED <<accounts, editing_account, account_to_edit, editing_date,
                   file, now, tz, aborted, lastEvent, arg>>

\* next_wednesday of the second before the result
RecurAgain ==
    /\ pc = "next"
    /\ ret' = [ret EXCEPT !.again = next_wednesday(ret.next - 1)]
    /\ pc' = "again"
    /\ UNCHANGED <<accounts, editing_account, account_to_edit, editing_date,
                   file, now, tz, aborted, lastEvent, arg>>

\* accounts[0].get_remaining_time()
RecurRemaining ==
    /\ pc = "next"
    /\ ret' = [ret EXCEPT !.remaining = get_remaining_time(accounts[1], now)]
    /\ pc' = "remaining"
    /\ UNCHANGED <<accounts, editing_account, account_to_edit, editing_date,
                   file, now, tz, aborted, lastEvent, arg>>

NextRecur == RecurReset \/ RecurNext \/ RecurAgain \/ RecurRemaining

SpecRecur == InitRecur /\ [][NextRecur]_vars

-----------------------------------------------------------------------------
(* The display of one account over time: the clock advances along a line   *)
(* of instants, every frame reads the remaining time, and the account may  *)
(* be reset or retimed in between.  The frames are scheduled by            *)
(* request_repaint_after, hence the fairness on ClockRefresh; the fairness *)
(* on ClockTick says that the clock keeps advancing.                       *)

\* Wednesday 2023-11-01 14:00:00, the seconds around the midnights of
\* Wednesday 2023-11-08 and of Wednesday 2023-11-15, all UTC
ClockLine ==
    {Clock1, Clock3 - 1, Clock3, Clock3 + 1,
     Clock3 + 7 * SecsPerDay - 1, Clock3 + 7 * SecsPerDay,
     Clock3 + 7 * SecsPerDay + 1}

LastClock == CHOOSE c \in ClockLine : \A d \in ClockLine : d <= c

\* dates of the account at start: collected a week before, or just now
ClockDates == {Clock1 - 7 * SecsPerDay, Clock1}

\* dates typed into the edit window: 10:00:00 02/11/2023 and
\* 10:00:00 25/10/2023
RetimeDates == {Utc(2023, 11, 2, 10, 0, 0), Utc(2023, 10, 25, 10, 0, 0)}

\* the count of "Accounts ready"
ReadyCount(accs, clock) ==
    Cardinality({k \in 1..Len(accs) : get_remaining_time(accs[k], clock) <= 0})

InitClock ==
    \E t \in ClockDates :
        /\ accounts = <<Account(DefaultName, t)>>
        /\ now = Clock1
        /\ pc = "fresh"
        /\ arg = [changed |-> FALSE]
        /\ ret = [remaining |-> 0, ready |-> 0, at |-> Clock1,
                  prev |-> 0, prevAt |-> Clock1, kept |-> FALSE]
        /\ tz = "UTC"
        /\ editing_account = FALSE
        /\ account_to_edit = 0
        /\ editing_date = EmptyText
        /\ file = NoFile
        /\ aborted = FALSE
        /\ lastEvent = NoEvent

\* the system clock advances
ClockTick ==
    /\ \E c \in ClockLine : c > now /\ now' = c
    /\ UNCHANGED <<accounts, editing_account, account_to_edit, editing_date,
                   file, tz, aborted, lastEvent, pc, arg, ret>>

\* a frame: the ready count and the remaining time of the row are read
\* anew; `kept` says that the date is the one the frame before has shown
ClockRefresh ==
    /\ ret' = [remaining |-> get_remaining_time(accounts[1], now),
               ready |-> ReadyCount(accounts, now),
               at |-> now,
               prev |-> ret.remaining,
               prevAt |-> ret.at,
               kept |-> (pc = "shown" /\ ~arg.changed)]
    /\ arg' = [changed |-> FALSE]
    /\ pc' = "shown"
    /\ UNCHANGED <<accounts, editing_account, account_to_edit, editing_date,
                   file, now, tz, aborted, lastEvent>>

\* "Reset timer"; the clock can still pass the occurrence that follows
ClockReset ==
    /\ now + 7 * SecsPerDay <= LastClock
    /\ accounts' = <<[accounts[1] EXCEPT !.date = now]>>
    /\ arg' = [changed |-> TRUE]
    /\ UNCHANGED <<editing_account, account_to_edit, editing_date, file,
                   now, tz, aborted, lastEvent, pc, ret>>

\* the parse step of the edit window writes a typed date
ClockRetime ==
    /\ \E d \in RetimeDates : accounts' = <<[accounts[1] EXCEPT !.date = d]>>
    /\ arg' = [changed |-> TRUE]
    /\ UNCHANGED <<editing_account, account_to_edit, editing_date, file,
                   now, tz, aborted, lastEvent, pc, ret>>

NextClock == ClockTick \/ ClockRefresh \/ ClockReset \/ ClockRetime

SpecClock ==
    /\ InitClock
    /\ [][NextClock]_vars
    /\ WF_vars(ClockTick)
    /\ WF_vars(ClockRefresh)

-----------------------------------------------------------------------------
(* Properties of the codec (SpecCodec).                                    *)

\* a store was saved and the bytes were loaded again
RoundTripDone == pc = "loaded" /\ arg.kind = "store"

\* C1 as stated: for every store, load_accounts after save_accounts returns
\* a store equal to the one saved.
C1_RoundTripEveryStore ==
    RoundTripDone => (~ret.panic /\ ret.accounts = accounts)

\* C1 as amended: for every store none of whose names contains a 0x00
\* byte, load_accounts after save_accounts returns a store equal to the one
\* saved: same length, same order, every name and timestamp the same.
C1_RoundTripNoNul ==
    (RoundTripDone /\ ~HasNul(accounts)) =>
        /\ ~ret.panic
        /\ Len(ret.accounts) = Len(accounts)
        /\ \A i \in 1..Len(accounts) :
              /\ ret.accounts[i].name = accounts[i].name
              /\ ret.accounts[i].date = accounts[i].date

\* a round trip of two accounts, the first with an empty name, the second
\* with a timestamp whose low byte is 0x00
C1_Witness ==
    /\ RoundTripDone
    /\ Len(accounts) = 2
    /\ accounts[1].name = <<>>
    /\ accounts[2].date = 256
    /\ ret.accounts = accounts

\* C9 as stated: loading a stream of valid records followed by a name, its
\* terminator and fewer than 8 bytes returns the accounts decoded before
\* the cut record and does not abort.
C9_CutStreamKeepsPrefix ==
    (pc = "loaded" /\ arg.kind = "cut") =>
        (~ret.panic /\ ret.accounts = arg.store)

-----------------------------------------------------------------------------
(* Properties of the recurrence (SpecRecur).                               *)

\* the local calendar day of the instant t on the host z
LocalDay(z, t) == DateOf(ToLocal(z, t))

\* C5 as stated: the result falls strictly after the local calendar day of
\* t and the weekday of its local calendar day is Wednesday.
C5_AfterLocalDay ==
    pc # "start" =>
        /\ LocalDay(tz, ret.next) > LocalDay(tz, arg.t)
        /\ Weekday(LocalDay(tz, ret.next)) = Wed

\* C5 as amended: the result falls strictly after the UTC calendar day of t
\* and the weekday of its UTC calendar day is Wednesday.
C5_AfterUtcDay ==
    pc # "start" =>
        /\ DateOf(ret.next) > DateOf(arg.t)
        /\ Weekday(DateOf(ret.next)) = Wed

\* the reference day is itself a Wednesday and the result is a week later
C5_Witness ==
    /\ pc = "next"
    /\ Weekday(DateOf(arg.t)) = Wed
    /\ DateOf(ret.next) = DateOf(arg.t) + 7

\* C6 as stated: the result is local midnight of the target day on every
\* host, and a last_event of Wednesday 10:00:00 local gives the following
\* Wednesday 00:00:00 local.
C6_LocalMidnight ==
    pc # "start" =>
        /\ TimeOf(ToLocal(tz, ret.next)) = 0
        /\ (Weekday(LocalDay(tz, arg.t)) = Wed
                /\ TimeOf(ToLocal(tz, arg.t)) = 10 * SecsPerHour)
            => ToLocal(tz, ret.next) = Timestamp(LocalDay(tz, arg.t) + 7, 0)

\* C6 as amended: the result is 00:00:00 UTC of the first Wednesday (UTC)
\* after the UTC day of last_event, and a last_event of Wednesday 10:00:00
\* UTC gives the following Wednesday 00:00:00 UTC.
C6_UtcMidnight ==
    pc # "start" =>
        /\ TimeOf(ret.next) = 0
        /\ \E d \in (DateOf(arg.t) + 1)..(DateOf(arg.t) + 7) :
              Weekday(d) = Wed /\ ret.next = Timestamp(d, 0)
        /\ (Weekday(DateOf(arg.t)) = Wed /\ TimeOf(arg.t) = 10 * SecsPerHour)
            => ret.next = Timestamp(DateOf(arg.t) + 7, 0)

\* last_event is Wednesday 10:00:00 in New York (daylight time) and the
\* result reads Tuesday 19:00:00 there (standard time)
C6_Witness ==
    /\ pc = "next"
    /\ tz = "America/New_York"
    /\ Weekday(LocalDay(tz, arg.t)) = Wed
    /\ TimeOf(ToLocal(tz, arg.t)) = 10 * SecsPerHour
    /\ TimeOf(ret.next) = 0
    /\ TimeOf(ToLocal(tz, ret.next)) = 19 * SecsPerHour

\* C7: next_wednesday of the second before next_wednesday(t) is
\* next_wednesday(t) again.
C7_LastSecondSameTarget == pc = "again" => ret.again = ret.next

\* the second application has run on a result other than t's own week start
C7_Witness ==
    /\ pc = "again"
    /\ ret.again = ret.next
    /\ TimeOf(arg.t) # 0
    /\ DateOf(ret.next - 1) # DateOf(arg.t)

\* C8: the remaining time is 0 whenever now >= next, and is next - now,
\* strictly positive, otherwise; it is never negative.
C8_RemainingTime ==
    pc = "remaining" =>
        /\ (now >= ret.next => ret.remaining = 0)
        /\ (now < ret.next => (ret.remaining = ret.next - now /\ ret.remaining > 0))
        /\ ret.remaining >= 0

\* the clock reads exactly the next occurrence and the account is ready
C8_Witness == pc = "remaining" /\ now = ret.next /\ ret.remaining = 0

\* C18: the next occurrence is strictly later than the reference instant
\* and at most seven days after it, and the remaining time computed at the
\* instant of a reset is strictly positive and at most one week.
C18_WithinAWeek ==
    /\ pc # "start" =>
          (0 < ret.next - arg.t /\ ret.next - arg.t <= 7 * SecsPerDay)
    /\ (pc = "remaining" /\ arg.reset) =>
          (0 < ret.remaining /\ ret.remaining <= 7 * SecsPerDay)

\* the account was reset at a Wednesday 00:00:00 UTC and the remaining
\* time read at that instant is exactly one week
C18_Witness ==
    /\ pc = "remaining" /\ arg.reset
    /\ arg.t = now
    /\ TimeOf(now) = 0
    /\ ret.remaining = 7 * SecsPerDay

-----------------------------------------------------------------------------
(* Properties of the display over time (SpecClock).                        *)

\* between two frames the date of the account was neither reset nor
\* retimed
DateKept == pc = "shown" /\ ret.kept

\* C19: when the date of the account did not change between two frames,
\* the remaining time of the later frame is not above that of the earlier
\* one and an account that was Ready is Ready (and counted as ready); and
\* with the clock advancing, every frame is followed by one in which the
\* account is Ready, unless its date is changed.
C19_RemainingNeverGrows ==
    /\ [](DateKept =>
            /\ ret.remaining <= ret.prev
            /\ ret.prev = 0 => (ret.remaining = 0 /\ ret.ready = 1))
    /\ ((pc = "shown") ~> (ret.remaining = 0 \/ arg.changed))

\* the date was kept, the clock went past the next occurrence between two
\* frames, and the account went from not Ready to Ready
C19_Witness ==
    /\ DateKept
    /\ ret.prevAt < ret.at
    /\ ret.prev > 0
    /\ ret.remaining = 0
    /\ ret.ready = 1

-----------------------------------------------------------------------------
(* Properties of the application (Spec).                                   *)

\* accounts.dat decodes to the accounts in memory
Decodes ==
    LET r == load_accounts(file) IN ~r.panic /\ r.accounts = accounts

EditClicks == {b \in lastEvent.clicks : b[1] = "Edit"}

\* the last frame accepted "Add account"
AddAccepted == <<"Add", 0>> \in lastEvent.clicks /\ ~lastEvent.locked

\* the last frame ended Idle after an accepted Delete or Reset timer, or
\* after the edit window was closed
IdleAfterSave ==
    /\ ~editing_account
    /\ \/ <<"Close", 0>> \in lastEvent.clicks
       \/ /\ ~lastEvent.locked
          /\ \E b \in lastEvent.clicks : b[1] \in {"Delete", "Reset"}

\* C2 as stated: after every mutating operation that completes, rename and
\* retime included, the file decodes to exactly the accounts in memory.
C2_WriteThroughAlways == ~aborted => Decodes

\* C2 as amended: after an accepted add, remove or reset and after the edit
\* window is closed the file is the encoding of the accounts in memory, and
\* whenever the guard is Idle the file decodes to them; a rename or retime
\* made in the edit window is written only when the window is closed.
C2_WriteThroughWhenSaved ==
    ~aborted =>
        /\ (~editing_account => Decodes)
        /\ ((AddAccepted \/ IdleAfterSave) => file = Encode(accounts))

\* a Delete was accepted, an account is left and the file holds it
C2_Witness ==
    /\ ~aborted /\ ~editing_account /\ ~lastEvent.locked
    /\ \E b \in lastEvent.clicks : b[1] = "Delete"
    /\ Len(accounts) = 1
    /\ file = Encode(accounts)

\* C3: while Editing(i) a click on any Edit button leaves the edited index
\* and the draft text as they are and does not leave Editing; from Idle a
\* click on the Edit button of row j enters Editing(j) with the draft text
\* of account j's date.
C3_OneEditInFlight ==
    [][\A j \in 0..(Len(accounts) - 1) :
          /\ (editing_account /\ <<"Edit", j>> \in lastEvent'.clicks) =>
                /\ account_to_edit' = account_to_edit
                /\ editing_date' = editing_date
                /\ (editing_account' \/ <<"Close", 0>> \in lastEvent'.clicks)
          /\ (~editing_account /\ lastEvent'.clicks = {<<"Edit", j>>}) =>
                /\ editing_account'
                /\ account_to_edit' = j
                /\ editing_date' = format_date(tz, accounts[j + 1].date)]_vars

\* Editing(i) after a frame in which the Edit button of another row was
\* clicked
C3_Witness ==
    /\ editing_account /\ lastEvent.locked /\ ~aborted
    /\ \E b \in EditClicks : b[2] # account_to_edit

\* C4: from a state in which the guard is Editing no step changes the
\* number of accounts or any account other than the edited one.
C4_LockedStore ==
    [][editing_account =>
          /\ Len(accounts') = Len(accounts)
          /\ \A k \in 1..Len(accounts) :
                k # account_to_edit + 1 => accounts'[k] = accounts[k]]_vars

\* Editing after a frame in which Add, Delete or Reset timer was clicked
\* while the guard was Editing
C4_Witness ==
    /\ editing_account /\ lastEvent.locked /\ ~aborted
    /\ Len(accounts) = 2
    /\ \E b \in lastEvent.clicks : b[1] \in {"Add", "Delete", "Reset"}

\* C10 as stated: no operation terminates the process.
C10_NeverAborts == ~aborted


\* C11: when accounts.dat is missing, or present and empty, construction
\* gives an empty list of accounts without aborting, and the application
\* starts Idle.
C11_MissingOrEmptyFile ==
    (lastEvent.start /\ (file = NoFile \/ file = <<>>)) =>
        /\ accounts = <<>>
        /\ ~aborted
        /\ ~editing_account

\* the application has started on an empty accounts.dat
C11_Witness ==
    /\ lastEvent.start /\ file = <<>>
    /\ accounts = <<>> /\ ~aborted /\ ~editing_account

\* C12: every step from Editing to Idle that the process survives is a
\* frame in which the edit window was closed; after it accounts.dat is the
\* encoding of the accounts in memory, and the accounts are the ones the
\* edit produced: the step restores nothing.
C12_CloseIsOnlyExit ==
    [][(editing_account /\ ~editing_account' /\ ~aborted') =>
          /\ <<"Close", 0>> \in lastEvent'.clicks
          /\ file' = Encode(accounts')
          /\ accounts' = accounts]_vars

\* the window was closed on an account renamed to "B" and retimed to
\* 10:00:00 02/11/2023, and the file holds both changes
C12_Witness ==
    /\ ~editing_account /\ ~aborted
    /\ <<"Close", 0>> \in lastEvent.clicks
    /\ tz = "UTC"
    /\ \E k \in 1..Len(accounts) :
          /\ accounts[k].name = <<66>>
          /\ accounts[k].date = Utc(2023, 11, 2, 10, 0, 0)
    /\ file = Encode(accounts)


\* C13 as stated: in every frame that starts in Editing(i), a draft text
\* of the pattern sets the date of account i to the instant the text
\* denotes in local time, any other draft text leaves that date as it was,
\* and the date of no other account changes.
C13_LiveRetime ==
    [][(editing_account /\ now' = now) =>
          LET i == account_to_edit + 1
          IN  /\ ParseOk(editing_date') =>
                    accounts'[i].date \in
                        from_local_datetime(tz, ParseValue(editing_date'))
              /\ ~ParseOk(editing_date') => accounts'[i].date = accounts[i].date
              /\ Len(accounts') = Len(accounts)
              /\ \A k \in 1..Len(accounts) :
                    k # i => accounts'[k].date = accounts[k].date]_vars


-----------------------------------------------------------------------------
(* Properties of the list of accounts (SpecStore).                         *)

C15_ResetOnlyDate ==
    [][\A i \in 0..(Len(accounts) - 1) :
          (~editing_account /\ lastEvent'.clicks = {<<"Reset", i>>}) =>
              /\ accounts' = [accounts EXCEPT ![i + 1].date = now]
              /\ ~editing_account'
              /\ account_to_edit' = account_to_edit
              /\ editing_date' = editing_date]_vars

\* "B", the second of three accounts, was reset: it carries the clock
\* reading, "A" and "C" are as they were
C15_Witness ==
    /\ ~editing_account /\ ~lastEvent.locked /\ ~aborted
    /\ lastEvent.clicks = {<<"Reset", 1>>}
    /\ Len(accounts) = 3
    /\ accounts[2] = Account(<<66>>, now)
    /\ accounts[1] = StoreAccounts[1]
    /\ accounts[3] = StoreAccounts[3]

\* C16: a frame from Idle in which "Add account" is clicked appends one
\* account dated with the clock reading at the end of the list: the new
\* index is the old length and the accounts already there keep their
\* position, name and date.
C16_AddAppends ==
    [][(~editing_account /\ <<"Add", 0>> \in lastEvent'.clicks) =>
          /\ accounts' = Append(accounts, Account(DefaultName, now))
          /\ account_to_edit' = Len(accounts)]_vars

\* an account was added behind "A"
C16_Witness ==
    /\ editing_account /\ ~lastEvent.locked /\ ~aborted
    /\ <<"Add", 0>> \in lastEvent.clicks
    /\ Len(accounts) = 2
    /\ accounts[1] = StoreAccounts[1]
    /\ accounts[2] = Account(DefaultName, now)
    /\ account_to_edit = 1


\* C17 as stated: whenever the guard is Editing after a step, the edited
\* index is a position of the list; the index set by an accepted Edit
\* click on row j denotes, after the frame, the account that was in row j;
\* and while the guard stays Editing neither the index nor the length of
\* the list changes.  Frames with two clicks are included.
C17_EditedIndexValid ==
    [][/\ editing_account' => account_to_edit' < Len(accounts')
       /\ \A j \in 0..(Len(accounts) - 1) :
             (/\ ~editing_account
              /\ <<"Add", 0>> \notin lastEvent'.clicks
              /\ <<"Edit", j>> \in lastEvent'.clicks
              /\ \A b \in lastEvent'.clicks : b[1] = "Edit" => b[2] >= j) =>
                 accounts'[account_to_edit' + 1].name = accounts[j + 1].name
       /\ (editing_account /\ editing_account') =>
             /\ account_to_edit' = account_to_edit
             /\ Len(accounts') = Len(accounts)]_vars


-----------------------------------------------------------------------------
(* The add as the begin of an edit (Spec).                                 *)

\* a button of a row was clicked in the last frame
RowClicks == {b \in lastEvent.clicks : b[1] \in {"Edit", "Delete", "Reset"}}

\* C20: a frame from Idle in which "Add account" is clicked ends in Editing
\* on the last index, the new account's, with the draft text of the new
\* account's date and, when the process survives the save, with the file
\* holding the list with the new account; Edit, Delete and Reset clicked in
\* that frame, or in any later frame that starts in Editing, change
\* neither the list nor the edited index nor the draft text.
C20_AddBeginsEdit ==
    [][/\ (~editing_account /\ <<"Add", 0>> \in lastEvent'.clicks) =>
             /\ editing_account'
             /\ Len(accounts') = Len(accounts) + 1
             /\ SubSeq(accounts', 1, Len(accounts)) = accounts
             /\ account_to_edit' = Len(accounts') - 1
             /\ editing_date' = format_date(tz, accounts'[Len(accounts')].date)
             /\ ~aborted' => file' = Encode(accounts')
       /\ (/\ editing_account
           /\ \E b \in lastEvent'.clicks : b[1] \in {"Edit", "Delete", "Reset"}) =>
             /\ accounts' = accounts
             /\ account_to_edit' = account_to_edit
             /\ editing_date' = editing_date
             /\ (editing_account' \/ <<"Close", 0>> \in lastEvent'.clicks)]_vars

\* "Add account" and the Delete button of row 0 were clicked in the same
\* frame: the account of row 0 is still there, the new account is edited
\* and the file holds both
C20_Witness ==
    /\ editing_account /\ ~aborted /\ ~lastEvent.locked
    /\ lastEvent.clicks = {<<"Add", 0>>, <<"Delete", 0>>}
    /\ RowClicks # {}
    /\ Len(accounts) = 2
    /\ account_to_edit = 1
    /\ editing_date = format_date(tz, accounts[2].date)
    /\ file = Encode(accounts)

=============================================================================
